---- MODULE Spec2Model ----
(***************************************************************************)
(* AIService (src/src/services/AIService.ts): a multi-provider chat        *)
(* client.  chat() walks PROVIDER_CASCADE_ORDER, skips providers without   *)
(* an API key, wraps each provider call in tryProviderWithBackoff and      *)
(* returns the first parsed answer.                                        *)
(*                                                                         *)
(* One chat() invocation is a cooperative task; its suspension points are  *)
(* the awaited fetch (pc = "fetch") and the awaited backoff timer          *)
(* (pc = "sleep").  pc = "chat" is the head of the for-loop of chat().     *)
(***************************************************************************)
EXTENDS Integers, Sequences, FiniteSets, TLC

(***************************************************************************)
(* Static tables                                                           *)
(***************************************************************************)
PROVIDER_CASCADE_ORDER ==
  <<"cerebras", "gemini", "deepseek", "openrouter", "mistral", "together", "groq">>

Provider == {PROVIDER_CASCADE_ORDER[i] : i \in 1..Len(PROVIDER_CASCADE_ORDER)}

PROVIDER_CONFIG ==
  [p \in Provider |->
     CASE p = "cerebras"   -> [baseURL |-> "https://api.cerebras.ai/v1", endpoint |-> "/chat/completions",
                               model |-> "llama-3.1-70b-chat", type |-> "openai-compatible"]
       [] p = "gemini"     -> [baseURL |-> "https://generativelanguage.googleapis.com/v1beta",
                               endpoint |-> "/models/gemini-2.5-flash-lite:generateContent",
                               model |-> "", type |-> "gemini-native"]
       [] p = "deepseek"   -> [baseURL |-> "https://api.deepseek.com/v1", endpoint |-> "/chat/completions",
                               model |-> "deepseek-r1-0528", type |-> "openai-compatible"]
       [] p = "openrouter" -> [baseURL |-> "https://openrouter.ai/api/v1", endpoint |-> "/chat/completions",
                               model |-> "deepseek/deepseek-r1", type |-> "openai-compatible"]
       [] p = "mistral"    -> [baseURL |-> "https://api.mistral.ai/v1", endpoint |-> "/chat/completions",
                               model |-> "mistral-large-3", type |-> "openai-compatible"]
       [] p = "together"   -> [baseURL |-> "https://api.together.xyz/v1", endpoint |-> "/chat/completions",
                               model |-> "meta-llama/Llama-3.1-70b-instruct", type |-> "openai-compatible"]
       [] p = "groq"       -> [baseURL |-> "https://api.groq.com/openai/v1", endpoint |-> "/chat/completions",
                               model |-> "llama-3.1-70b-versatile", type |-> "openai-compatible"]]

MAX_RETRIES == 3
INITIAL_BACKOFF_MS == 2000
MAX_TOKENS == 32768
\* Math.random() * 1000 lies in [0, JITTER_RANGE_MS)
JITTER_RANGE_MS == 1000

\* the keys the test-suite constructs the service with
FAKE_API_KEYS ==
  [p \in Provider |->
     CASE p = "cerebras"   -> "fake-cerebras-key"
       [] p = "gemini"     -> "fake-gemini-key"
       [] p = "deepseek"   -> "fake-deepseek-key"
       [] p = "openrouter" -> "fake-openrouter-key"
       [] p = "mistral"    -> "fake-mistral-key"
       [] p = "together"   -> "fake-together-key"
       [] p = "groq"       -> "fake-groq-key"]

\* position of a provider in the cascade order
Pos(p) == CHOOSE i \in 1..Len(PROVIDER_CASCADE_ORDER) : PROVIDER_CASCADE_ORDER[i] = p

(***************************************************************************)
(* Bounds of the environment                                               *)
(***************************************************************************)
\* longest conversation handed to chat() when the adapter is examined
MaxLen == 2
\* number of distinct jitter draws examined (spread over [0, 1000))
JitterDraws == 2

Role == {"user", "assistant", "system"}
MsgText == {"hello", "hi"}
ChatMessage == [role : Role, content : MsgText]

RECURSIVE SeqsUpTo(_, _)
SeqsUpTo(S, n) ==
  IF n = 0 THEN {<< >>}
  ELSE LET shorter == SeqsUpTo(S, n - 1)
       IN  shorter \cup {Append(s, x) : s \in {t \in shorter : Len(t) = n - 1}, x \in S}

\* conversations used to exercise the adapter: every conversation up to MaxLen
AdapterConversations == SeqsUpTo(ChatMessage, MaxLen)
\* the conversation used to exercise the cascade: the one the test-suite sends
CascadeConversations == {<<[role |-> "user", content |-> "hello"]>>}

\* jitter values drawn by Math.random() * 1000, whole milliseconds
JitterSamples == {(k * (JITTER_RANGE_MS - 1)) \div (JitterDraws - 1) : k \in 0..(JitterDraws - 1)}

\* HTTP statuses an endpoint answers with
StatusSamples == {200, 401, 429, 500, 503}
\* texts a provider answers with
ReplyText == {"", "ok"}

(***************************************************************************)
(* JavaScript values (the parsed JSON of a response body)                  *)
(***************************************************************************)
JUndef == [t |-> "undefined"]
JNull == [t |-> "null"]
JBool(b) == [t |-> "bool", b |-> b]
JNum(n) == [t |-> "num", n |-> n]
JStr(s) == [t |-> "str", s |-> s]
JArr(a) == [t |-> "arr", a |-> a]
JObj(f) == [t |-> "obj", f |-> f]

Nullish(v) == v.t \in {"undefined", "null"}

\* JavaScript truthiness: the test behind `!apiKey` and `if (response)`
Truthy(v) ==
  CASE v.t \in {"undefined", "null"} -> FALSE
    [] v.t = "bool" -> v.b
    [] v.t = "num"  -> v.n # 0
    [] v.t = "str"  -> v.s # ""
    [] OTHER        -> TRUE

\* an evaluation either yields a value or throws a TypeError
Val(v) == [ok |-> TRUE, v |-> v]
Throw == [ok |-> FALSE, v |-> JUndef]

\* v.k : throws on null/undefined, undefined when the property is absent
Prop(v, k) ==
  IF Nullish(v) THEN Throw
  ELSE IF v.t = "obj" /\ k \in DOMAIN v.f THEN Val(v.f[k])
  ELSE Val(JUndef)

\* v[0] : throws on null/undefined, undefined when there is no element 0
Index0(v) ==
  IF Nullish(v) THEN Throw
  ELSE IF v.t = "arr" /\ Len(v.a) >= 1 THEN Val(v.a[1])
  ELSE Val(JUndef)

\* x || ''
OrEmpty(v) == IF Truthy(v) THEN v ELSE JStr("")

(***************************************************************************)
(* Errors                                                                  *)
(***************************************************************************)
NoError == [kind |-> "none", provider |-> "", hasStatus |-> FALSE, status |-> 0]
\* makeApiCall: new Error(`API call to ${provider} failed with status ...`), error.status = status
ApiError(p, s) == [kind |-> "api", provider |-> p, hasStatus |-> TRUE, status |-> s]
\* fetch() rejects: the error carries no status
NetworkError == [kind |-> "network", provider |-> "", hasStatus |-> FALSE, status |-> 0]
\* response.json() rejects on a body that is not JSON: no status either
JsonError == [kind |-> "json", provider |-> "", hasStatus |-> FALSE, status |-> 0]
\* parseResponse: new Error(`Could not parse a valid response from ${provider}.`)
ParseError(p) == [kind |-> "parse", provider |-> p, hasStatus |-> FALSE, status |-> 0]
\* chat: new Error('All AI providers failed. Please check your API keys, ...')
AllFailedError == [kind |-> "aggregate", provider |-> "", hasStatus |-> FALSE, status |-> 0]

\* faulty variant: `error.status === 429 || !(error.status < 500)`, which an
\* error without a status satisfies
IsRetryable_StatuslessRetried(e) == ~e.hasStatus \/ e.status = 429 \/ e.status >= 500

\* faulty variant: every error status is retried (`error.status >= 400`)
IsRetryable_AnyClientError(e) == e.hasStatus /\ e.status >= 400

\* error.status === 429 || error.status >= 500  (undefined >= 500 is false)
IsRetryable(e) == e.hasStatus /\ (e.status = 429 \/ e.status >= 500)

\* response.ok
IsOk(status) == status >= 200 /\ status <= 299

RECURSIVE Pow2(_)
Pow2(n) == IF n = 0 THEN 1 ELSE 2 * Pow2(n - 1)

\* faulty variant: the delay grows linearly, `INITIAL_BACKOFF_MS * (attempt + 1)`
BackoffDelay_Linear(att, jitter) == INITIAL_BACKOFF_MS * (att + 1) + jitter

\* INITIAL_BACKOFF_MS * Math.pow(2, attempt) + Math.random() * 1000
BackoffDelay(att, jitter) == INITIAL_BACKOFF_MS * Pow2(att) + jitter

(***************************************************************************)
(* Provider adapter: request                                               *)
(***************************************************************************)
\* faulty variant: the role is passed through, 'assistant' is not renamed
GeminiMessages_KeepsRole(msgs) ==
  [i \in 1..Len(msgs) |-> [role |-> msgs[i].role, parts |-> <<[text |-> msgs[i].content]>>]]

\* messages.map(m => ({role: m.role === 'assistant' ? 'model' : m.role, parts: [{text: m.content}]}))
GeminiMessages(msgs) ==
  [i \in 1..Len(msgs) |->
     [role  |-> IF msgs[i].role = "assistant" THEN "model" ELSE msgs[i].role,
      parts |-> <<[text |-> msgs[i].content]>>]]

\* the body handed to JSON.stringify; temperature 0.7 is kept as tenths
RequestBody(p, msgs) ==
  IF PROVIDER_CONFIG[p].type = "openai-compatible"
  THEN [dialect |-> "openai-compatible", model |-> PROVIDER_CONFIG[p].model, messages |-> msgs,
        contents |-> << >>, maxTokens |-> MAX_TOKENS, temperatureTenths |-> 7]
  ELSE [dialect |-> "gemini-native", model |-> "", messages |-> << >>,
        contents |-> GeminiMessages(msgs), maxTokens |-> MAX_TOKENS, temperatureTenths |-> 7]

\* the POST makeApiCall hands to fetch: url = baseURL + endpoint (+ ?key=apiKey),
\* Authorization: Bearer apiKey for the openai-compatible providers only
Request(p, msgs, apiKey) ==
  [to       |-> p,
   baseURL  |-> PROVIDER_CONFIG[p].baseURL,
   endpoint |-> PROVIDER_CONFIG[p].endpoint,
   queryKey |-> IF PROVIDER_CONFIG[p].type = "gemini-native" THEN apiKey ELSE "",
   bearer   |-> IF PROVIDER_CONFIG[p].type = "openai-compatible" THEN apiKey ELSE "",
   body     |-> RequestBody(p, msgs)]

NoRequest == [to |-> "", baseURL |-> "", endpoint |-> "", queryKey |-> "", bearer |-> "",
              body |-> [dialect |-> "", model |-> "", messages |-> << >>, contents |-> << >>,
                        maxTokens |-> 0, temperatureTenths |-> 0]]

(***************************************************************************)
(* Provider adapter: response                                              *)
(***************************************************************************)
\* response.choices[0]?.message?.content || ''
ParseOpenAI(response) ==
  LET choices == Prop(response, "choices") IN
  IF ~choices.ok THEN Throw ELSE
  LET first == Index0(choices.v) IN
  IF ~first.ok THEN Throw ELSE
  IF Nullish(first.v) THEN Val(OrEmpty(JUndef)) ELSE
  LET message == Prop(first.v, "message") IN
  IF Nullish(message.v) THEN Val(OrEmpty(JUndef)) ELSE
  Val(OrEmpty(Prop(message.v, "content").v))

\* response.candidates[0]?.content?.parts[0]?.text || ''
\* (`?.` guards only the value to its left: parts[0] throws when parts is absent)
ParseGemini(response) ==
  LET candidates == Prop(response, "candidates") IN
  IF ~candidates.ok THEN Throw ELSE
  LET first == Index0(candidates.v) IN
  IF ~first.ok THEN Throw ELSE
  IF Nullish(first.v) THEN Val(OrEmpty(JUndef)) ELSE
  LET content == Prop(first.v, "content") IN
  IF Nullish(content.v) THEN Val(OrEmpty(JUndef)) ELSE
  LET part == Index0(Prop(content.v, "parts").v) IN
  IF ~part.ok THEN Throw ELSE
  IF Nullish(part.v) THEN Val(OrEmpty(JUndef)) ELSE
  Val(OrEmpty(Prop(part.v, "text").v))

\* faulty variant: the two dialect branches are exchanged
parseResponse_DialectsSwapped(p, response) ==
  IF PROVIDER_CONFIG[p].type = "openai-compatible" THEN ParseGemini(response)
  ELSE ParseOpenAI(response)

\* parseResponse: the content, or ok = FALSE when the catch block rethrows the
\* parsing error
parseResponse(p, response) ==
  IF PROVIDER_CONFIG[p].type = "openai-compatible" THEN ParseOpenAI(response)
  ELSE IF PROVIDER_CONFIG[p].type = "gemini-native" THEN ParseGemini(response)
  ELSE Val(JStr(""))

\* bodies an endpoint answers a 2xx with, as response.json() parses them
OpenAIReply(t) == JObj([choices |-> JArr(<<JObj([message |-> JObj([content |-> JStr(t)])])>>)])
GeminiReply(t) ==
  JObj([candidates |-> JArr(<<JObj([content |-> JObj([parts |-> JArr(<<JObj([text |-> JStr(t)])>>)])])>>)])
BodySamples ==
  {JNull, JBool(FALSE), JNum(0), JStr(""), JBool(TRUE), JObj(<< >>),
   JObj([error |-> JStr("overloaded")]),
   JObj([choices |-> JArr(<< >>)]),
   JObj([choices |-> JArr(<<JObj(<< >>)>>)]),
   JObj([choices |-> JArr(<<JObj([message |-> JObj(<< >>)])>>)]),
   JObj([candidates |-> JArr(<< >>)]),
   JObj([candidates |-> JArr(<<JObj(<< >>)>>)]),
   JObj([candidates |-> JArr(<<JObj([content |-> JObj(<< >>)])>>)]),
   JObj([candidates |-> JArr(<<JObj([content |-> JObj([parts |-> JArr(<< >>)])])>>)]),
   JObj([candidates |-> JArr(<<JObj([content |-> JObj([parts |-> JArr(<<JObj(<< >>)>>)])])>>)])}
  \cup {OpenAIReply(t) : t \in ReplyText} \cup {GeminiReply(t) : t \in ReplyText}

(***************************************************************************)
(* State                                                                   *)
(***************************************************************************)
VARIABLES
  apiKeys,    \* this.apiKeys: the object the caller handed to the constructor
  apiKey,     \* chat: apiKey, the entry read for the provider of the iteration
  messages,   \* the conversation of the running chat() call
  pc,         \* "idle", "chat" (loop head), "fetch", "sleep", "resolved", "rejected"
  idx,        \* position of the for-of loop of chat() in PROVIDER_CASCADE_ORDER
  attempt,    \* tryProviderWithBackoff: attempt
  lastError,  \* tryProviderWithBackoff: lastError; then the error chat() caught
  response,   \* chat: response (JUndef until tryProviderWithBackoff returns)
  net,        \* the request awaiting its response, or NoRequest
  sent,       \* the request the network received last in this call
  timer,      \* the pending setTimeout delay in ms, 0 when none
  result,     \* the value chat() resolved with
  thrown,     \* the error chat() rejected with
  log,        \* console lines written in the current loop iteration
  called,     \* providers whose endpoint received a request in this call
  skipped,    \* providers the loop skipped in this call
  succeeded,  \* providers that answered 2xx with a body of their dialect's shape
  reqs,       \* requests sent to the provider of the current iteration
  sleeps,     \* backoff delays awaited for the provider of the current iteration
  answers,    \* statuses that provider answered with, in order (0: no response)
  granted,    \* the value the credential object had when the constructor ran
  parked,     \* the frame of a second chat() call of the instance while it does not run
  earlier,    \* what earlier calls of the instance went through, see Remember
  total       \* requests sent in this call, all providers together

\* the locals of one chat() call together with what was observed of it
frame == <<apiKey, messages, pc, idx, attempt, lastError, response, net, sent, timer,
           result, thrown, log, called, skipped, succeeded, reqs, sleeps, answers>>

vars == <<apiKeys, frame, granted, parked, earlier, total>>

NoResult == [content |-> JUndef, provider |-> ""]

\* nothing was called yet
NoHistory == [failed |-> {}, exhausted |-> {}, exhausting |-> {}]

\* the frame of the chat() call that runs, as one value
Frame ==
  [apiKey |-> apiKey, messages |-> messages, pc |-> pc, idx |-> idx, attempt |-> attempt,
   lastError |-> lastError, response |-> response, net |-> net, sent |-> sent, timer |-> timer,
   result |-> result, thrown |-> thrown, log |-> log, called |-> called, skipped |-> skipped,
   succeeded |-> succeeded, reqs |-> reqs, sleeps |-> sleeps, answers |-> answers]

NumProviders == Len(PROVIDER_CASCADE_ORDER)

\* the provider of the current loop iteration
Current == PROVIDER_CASCADE_ORDER[idx]

\* the shape spec'd for each dialect: {choices:[{message:{content}}]} and
\* {candidates:[{content:{parts:[{text}]}}]}, the text a string
HasDialectShape(p, body) ==
  \E t \in ReplyText :
    body = (IF PROVIDER_CONFIG[p].type = "gemini-native" THEN GeminiReply(t) ELSE OpenAIReply(t))

LogLine(level, event, p) == [level |-> level, event |-> event, provider |-> p]

(***************************************************************************)
(* Construction and the call                                               *)
(***************************************************************************)
\* new AIService(apiKeys): each entry is the provider's key or blank; a blank
\* entry is the empty string or absent (undefined)
KeyMaps ==
  UNION {{[p \in Provider |-> IF p \in S THEN JStr(FAKE_API_KEYS[p]) ELSE blank] : S \in SUBSET Provider}
           : blank \in {JStr(""), JUndef}}

InitWith(maps) ==
  /\ apiKeys \in maps
  /\ granted = apiKeys
  /\ apiKey = JUndef
  /\ messages = << >>
  /\ pc = "idle"
  /\ idx = 1
  /\ attempt = 0
  /\ lastError = NoError
  /\ response = JUndef
  /\ net = NoRequest
  /\ sent = NoRequest
  /\ timer = 0
  /\ result = NoResult
  /\ thrown = NoError
  /\ log = << >>
  /\ called = {}
  /\ skipped = {}
  /\ succeeded = {}
  /\ reqs = 0
  /\ sleeps = 0
  /\ answers = << >>
  /\ parked = Frame
  /\ earlier = NoHistory
  /\ total = 0

Init == InitWith(KeyMaps)

\* faulty variant: the instance keeps the position of the provider that
\* answered last and the next call starts there
ChatCall_StartsAtLastGood(convs) ==
  /\ pc \in {"idle", "resolved", "rejected"}
  /\ messages' \in convs
  /\ apiKey' = JUndef
  /\ pc' = "chat"
  /\ idx' = IF pc = "resolved" THEN idx ELSE 1
  /\ attempt' = 0
  /\ lastError' = NoError
  /\ response' = JUndef
  /\ net' = NoRequest
  /\ sent' = NoRequest
  /\ timer' = 0
  /\ result' = NoResult
  /\ thrown' = NoError
  /\ log' = << >>
  /\ called' = {}
  /\ skipped' = {}
  /\ succeeded' = {}
  /\ reqs' = 0
  /\ sleeps' = 0
  /\ answers' = << >>
  /\ UNCHANGED apiKeys

\* a caller invokes chat(messages); the previous call, if any, has settled
ChatCall(convs) ==
  /\ pc \in {"idle", "resolved", "rejected"}
  /\ messages' \in convs
  /\ apiKey' = JUndef
  /\ pc' = "chat"
  /\ idx' = 1
  /\ attempt' = 0
  /\ lastError' = NoError
  /\ response' = JUndef
  /\ net' = NoRequest
  /\ sent' = NoRequest
  /\ timer' = 0
  /\ result' = NoResult
  /\ thrown' = NoError
  /\ log' = << >>
  /\ called' = {}
  /\ skipped' = {}
  /\ succeeded' = {}
  /\ reqs' = 0
  /\ sleeps' = 0
  /\ answers' = << >>
  /\ UNCHANGED apiKeys

(***************************************************************************)
(* chat(): the cascade                                                     *)
(***************************************************************************)
\* faulty variant: `if (apiKey === undefined)`, an empty key is not skipped
SkipsProvider_OnlyUndefined(key) == key.t = "undefined"

\* if (!apiKey)
SkipsProvider(key) == ~Truthy(key)

\* faulty variant: `if (!response)`
AcceptsResponse_Inverted(resp) == ~Truthy(resp)

\* if (response)
AcceptsResponse(resp) == Truthy(resp)

\* faulty variant: `attempt <= MAX_RETRIES`
HasAttemptLeft_Inclusive(att) == att <= MAX_RETRIES

\* attempt < MAX_RETRIES, the condition of the retry loop
HasAttemptLeft(att) == att < MAX_RETRIES

\* faulty variant: the loop does not advance after a provider failed
NextIndex_Stays(i) == i

\* the for-of loop moves to the next provider of PROVIDER_CASCADE_ORDER
NextIndex(i) == i + 1

\* console.warn(`Skipping ${provider}: API key not provided.`); continue
Skip ==
  /\ pc = "chat"
  /\ idx <= NumProviders
  /\ apiKey' = apiKeys[Current]
  /\ SkipsProvider(apiKey')
  /\ skipped' = skipped \cup {Current}
  /\ log' = <<LogLine("warn", "skipping", Current)>>
  /\ idx' = NextIndex(idx)
  /\ lastError' = NoError
  /\ response' = JUndef
  /\ reqs' = 0
  /\ sleeps' = 0
  /\ answers' = << >>
  /\ UNCHANGED <<apiKeys, messages, pc, attempt, net, sent, timer, result, thrown, called, succeeded>>

\* faulty variant: apiKey is declared outside the loop and filled once
\* (`apiKey ||= this.apiKeys[provider]`), the key of an earlier provider stays
StartProvider_StaleKey ==
  /\ pc = "chat"
  /\ idx <= NumProviders
  /\ ~SkipsProvider(apiKeys[Current])
  /\ apiKey' = IF Truthy(apiKey) THEN apiKey ELSE apiKeys[Current]
  /\ attempt' = 0
  /\ lastError' = NoError
  /\ response' = JUndef
  /\ net' = Request(Current, messages, apiKey'.s)
  /\ sent' = net'
  /\ called' = called \cup {Current}
  /\ reqs' = 1
  /\ sleeps' = 0
  /\ answers' = << >>
  /\ log' = << >>
  /\ pc' = "fetch"
  /\ UNCHANGED <<apiKeys, messages, idx, timer, result, thrown, skipped, succeeded>>

\* tryProviderWithBackoff is entered: attempt = 0, makeApiCall posts the request
StartProvider ==
  /\ pc = "chat"
  /\ idx <= NumProviders
  /\ apiKey' = apiKeys[Current]
  /\ ~SkipsProvider(apiKey')
  /\ attempt' = 0
  /\ lastError' = NoError
  /\ response' = JUndef
  /\ net' = Request(Current, messages, apiKey'.s)
  /\ sent' = net'
  /\ called' = called \cup {Current}
  /\ reqs' = 1
  /\ sleeps' = 0
  /\ answers' = << >>
  /\ log' = << >>
  /\ pc' = "fetch"
  /\ UNCHANGED <<apiKeys, messages, idx, timer, result, thrown, skipped, succeeded>>

\* faulty variant: the loop ends by rethrowing the last provider's error
Exhausted_RethrowsLast ==
  /\ pc = "chat"
  /\ idx > NumProviders
  /\ pc' = "rejected"
  /\ thrown' = IF lastError.kind = "none" THEN AllFailedError ELSE lastError
  /\ UNCHANGED <<apiKeys, apiKey, messages, idx, attempt, lastError, response, net, sent, timer, result,
                 log, called, skipped, succeeded, reqs, sleeps, answers>>

\* the loop is over: throw new Error('All AI providers failed. ...')
Exhausted ==
  /\ pc = "chat"
  /\ idx > NumProviders
  /\ pc' = "rejected"
  /\ thrown' = AllFailedError
  /\ UNCHANGED <<apiKeys, apiKey, messages, idx, attempt, lastError, response, net, sent, timer, result,
                 log, called, skipped, succeeded, reqs, sleeps, answers>>

\* faulty variant: chat() has no catch block, the provider's error ends the call
ProviderFails_Aborts(e, lines) ==
  /\ lastError' = e
  /\ log' = log \o lines \o <<LogLine("error", "failed permanently", Current)>>
  /\ idx' = idx
  /\ pc' = "rejected"

\* tryProviderWithBackoff throws e; chat() catches it, logs it and goes on
ProviderFails(e, lines) ==
  /\ lastError' = e
  /\ log' = log \o lines \o <<LogLine("error", "failed permanently", Current)>>
  /\ idx' = NextIndex(idx)
  /\ pc' = "chat"

(***************************************************************************)
(* tryProviderWithBackoff / makeApiCall: the awaited fetch settles         *)
(***************************************************************************)
\* faulty variant: `setTimeout(delay)` is not awaited, the retry goes out while
\* the timer is pending
OnError_TimerNotAwaited(e, ans) ==
  /\ answers' = Append(answers, ans)
  /\ IF IsRetryable(e)
     THEN /\ \E jitter \in JitterSamples : timer' = BackoffDelay(attempt, jitter)
          /\ lastError' = e
          /\ log' = Append(log, LogLine("warn", "retrying", Current))
          /\ sleeps' = sleeps + 1
          /\ attempt' = attempt + 1
          /\ IF HasAttemptLeft(attempt + 1)
             THEN /\ net' = Request(Current, messages, apiKey.s)
                  /\ sent' = net'
                  /\ reqs' = reqs + 1
                  /\ pc' = "fetch"
             ELSE /\ net' = NoRequest
                  /\ pc' = "sleep"
                  /\ UNCHANGED <<sent, reqs>>
          /\ UNCHANGED idx
     ELSE /\ ProviderFails(e, << >>)
          /\ net' = NoRequest
          /\ UNCHANGED <<timer, sleeps, attempt, sent, reqs>>
  /\ UNCHANGED <<apiKeys, apiKey, messages, response, result, thrown, called, skipped, succeeded>>

\* makeApiCall threw e, the endpoint having answered ans
OnError(e, ans) ==
  /\ answers' = Append(answers, ans)
  /\ net' = NoRequest
  /\ IF IsRetryable(e)
     THEN /\ \E jitter \in JitterSamples : timer' = BackoffDelay(attempt, jitter)
          /\ lastError' = e
          /\ log' = Append(log, LogLine("warn", "retrying", Current))
          /\ sleeps' = sleeps + 1
          /\ pc' = "sleep"
          /\ UNCHANGED idx
     ELSE /\ ProviderFails(e, << >>)
          /\ UNCHANGED <<timer, sleeps>>
  /\ UNCHANGED <<apiKeys, apiKey, messages, attempt, response, sent, result, thrown, called, skipped,
                 succeeded, reqs>>

\* fetch() itself rejects (no response)
FetchRejects ==
  /\ pc = "fetch"
  /\ OnError(NetworkError, 0)

\* !response.ok
HttpError ==
  /\ pc = "fetch"
  /\ \E s \in StatusSamples :
       /\ ~IsOk(s)
       /\ OnError(ApiError(Current, s), s)

\* response.ok, and response.json() rejects
HttpOkNotJson ==
  /\ pc = "fetch"
  /\ \E s \in StatusSamples :
       /\ IsOk(s)
       /\ OnError(JsonError, s)

\* response.ok, response.json() yields body: tryProviderWithBackoff returns it
\* and chat() parses it
HttpOk ==
  /\ pc = "fetch"
  /\ \E s \in StatusSamples, body \in BodySamples :
       /\ IsOk(s)
       /\ answers' = Append(answers, s)
       /\ net' = NoRequest
       /\ response' = body
       /\ succeeded' = IF HasDialectShape(Current, body) THEN succeeded \cup {Current} ELSE succeeded
       /\ IF AcceptsResponse(body)
          THEN LET parsed == parseResponse(Current, body) IN
               IF parsed.ok
               THEN /\ result' = [content |-> parsed.v, provider |-> Current]
                    /\ pc' = "resolved"
                    /\ UNCHANGED <<idx, lastError, log>>
               ELSE /\ ProviderFails(ParseError(Current),
                                     <<LogLine("error", "failed to parse", Current)>>)
                    /\ UNCHANGED result
          ELSE /\ idx' = NextIndex(idx)
               /\ pc' = "chat"
               /\ UNCHANGED <<result, lastError, log>>
  /\ UNCHANGED <<apiKeys, apiKey, messages, attempt, sent, timer, thrown, called, skipped, reqs, sleeps>>

\* faulty variant: the retry loop is `while (true)` around the same body and
\* never counts its attempts
TimerFires_NeverCounts ==
  /\ pc = "sleep"
  /\ timer' = 0
  /\ attempt' = attempt
  /\ net' = Request(Current, messages, apiKey.s)
  /\ sent' = net'
  /\ reqs' = reqs + 1
  /\ pc' = "fetch"
  /\ UNCHANGED <<idx, lastError, log>>
  /\ UNCHANGED <<apiKeys, apiKey, messages, response, result, thrown, called, skipped, succeeded,
                 sleeps, answers>>

\* the backoff timer fires: attempt++, then the next attempt or throw lastError
TimerFires ==
  /\ pc = "sleep"
  /\ timer' = 0
  /\ attempt' = attempt + 1
  /\ IF HasAttemptLeft(attempt + 1)
     THEN /\ net' = Request(Current, messages, apiKey.s)
          /\ sent' = net'
          /\ reqs' = reqs + 1
          /\ pc' = "fetch"
          /\ UNCHANGED <<idx, lastError, log>>
     ELSE /\ ProviderFails(lastError, << >>)
          /\ UNCHANGED <<net, sent, reqs>>
  /\ UNCHANGED <<apiKeys, apiKey, messages, response, result, thrown, called, skipped, succeeded,
                 sleeps, answers>>

\* one call at a time, nothing observed beyond the frame
Alone == UNCHANGED <<granted, parked, earlier, total>>

Next ==
  \/ ChatCall(CascadeConversations) /\ Alone
  \/ Skip /\ Alone
  \/ StartProvider /\ Alone
  \/ Exhausted /\ Alone
  \/ FetchRejects /\ Alone
  \/ HttpError /\ Alone
  \/ HttpOkNotJson /\ Alone
  \/ HttpOk /\ Alone
  \/ TimerFires /\ Alone

Spec == Init /\ [][Next]_vars

(***************************************************************************)
(* The adapter examined on its own: only the gemini-native provider holds  *)
(* a key, and chat() is handed every conversation up to MaxLen.            *)
(***************************************************************************)
NativeKeyMaps ==
  {[p \in Provider |-> IF p = "gemini" THEN JStr(FAKE_API_KEYS[p]) ELSE blank] : blank \in {JStr(""), JUndef}}

InitNative == InitWith(NativeKeyMaps)

NextNative ==
  \/ ChatCall(AdapterConversations) /\ Alone
  \/ Skip /\ Alone
  \/ StartProvider /\ Alone
  \/ Exhausted /\ Alone
  \/ FetchRejects /\ Alone
  \/ HttpError /\ Alone
  \/ HttpOkNotJson /\ Alone
  \/ HttpOk /\ Alone
  \/ TimerFires /\ Alone

SpecNative == InitNative /\ [][NextNative]_vars

(***************************************************************************)
(* Two chat() calls on one instance. JavaScript runs one of them at a time *)
(* and passes control at an await: while a call waits for its fetch or its *)
(* backoff timer (or before it starts, or once it settled) the other one   *)
(* runs. Every local of chat() and tryProviderWithBackoff belongs to the   *)
(* call; this.apiKeys is the one object both read.                         *)
(***************************************************************************)
ConcurrentKeyMaps ==
  {[p \in Provider |-> IF p \in {"cerebras", "gemini"} THEN JStr(FAKE_API_KEYS[p]) ELSE JStr("")]}

InitConcurrent == InitWith(ConcurrentKeyMaps)

\* faulty variant: the attempt counter is a field of the instance
\* (`this.attempt`), so it is not part of what a call resumes with
Switch_SharedAttempt ==
  /\ pc \in {"idle", "fetch", "sleep", "resolved", "rejected"}
  /\ parked' = Frame
  /\ apiKey' = parked.apiKey
  /\ messages' = parked.messages
  /\ pc' = parked.pc
  /\ idx' = parked.idx
  /\ attempt' = attempt
  /\ lastError' = parked.lastError
  /\ response' = parked.response
  /\ net' = parked.net
  /\ sent' = parked.sent
  /\ timer' = parked.timer
  /\ result' = parked.result
  /\ thrown' = parked.thrown
  /\ log' = parked.log
  /\ called' = parked.called
  /\ skipped' = parked.skipped
  /\ succeeded' = parked.succeeded
  /\ reqs' = parked.reqs
  /\ sleeps' = parked.sleeps
  /\ answers' = parked.answers
  /\ UNCHANGED <<apiKeys, granted, earlier, total>>

\* the running call is suspended at an await (or not running); the other call
\* is resumed with its own locals
Switch ==
  /\ pc \in {"idle", "fetch", "sleep", "resolved", "rejected"}
  /\ parked' = Frame
  /\ apiKey' = parked.apiKey
  /\ messages' = parked.messages
  /\ pc' = parked.pc
  /\ idx' = parked.idx
  /\ attempt' = parked.attempt
  /\ lastError' = parked.lastError
  /\ response' = parked.response
  /\ net' = parked.net
  /\ sent' = parked.sent
  /\ timer' = parked.timer
  /\ result' = parked.result
  /\ thrown' = parked.thrown
  /\ log' = parked.log
  /\ called' = parked.called
  /\ skipped' = parked.skipped
  /\ succeeded' = parked.succeeded
  /\ reqs' = parked.reqs
  /\ sleeps' = parked.sleeps
  /\ answers' = parked.answers
  /\ UNCHANGED <<apiKeys, granted, earlier, total>>

NextConcurrent ==
  \/ ChatCall(CascadeConversations) /\ Alone
  \/ Skip /\ Alone
  \/ StartProvider /\ Alone
  \/ Exhausted /\ Alone
  \/ FetchRejects /\ Alone
  \/ HttpError /\ Alone
  \/ HttpOkNotJson /\ Alone
  \/ HttpOk /\ Alone
  \/ TimerFires /\ Alone
  \/ Switch

SpecConcurrent == InitConcurrent /\ [][NextConcurrent]_vars

(***************************************************************************)
(* Calls in sequence on one instance, with a record of what the earlier    *)
(* ones went through: the providers that were called without their answer  *)
(* being returned, and those abandoned after their last retry.             *)
(***************************************************************************)
HistoryKeyMaps ==
  {[p \in Provider |-> IF p \in {"gemini", "deepseek"} THEN JStr(FAKE_API_KEYS[p]) ELSE blank]
     : blank \in {JStr(""), JUndef}}

InitHistory == InitWith(HistoryKeyMaps)

\* the record is brought up to date when a call starts and when a provider's
\* retries run out
Remember ==
  /\ earlier' =
       IF pc \in {"idle", "resolved", "rejected"} /\ pc' = "chat"
       THEN [failed     |-> earlier.failed \cup
                              (called \ (IF pc = "resolved" THEN {result.provider} ELSE {})),
             exhausted  |-> earlier.exhausted \cup earlier.exhausting,
             exhausting |-> {}]
       ELSE IF pc = "sleep" /\ pc' = "chat"
       THEN [earlier EXCEPT !.exhausting = @ \cup {Current}]
       ELSE earlier
  /\ UNCHANGED <<granted, parked, total>>

NextHistory ==
  \/ ChatCall(CascadeConversations) /\ Remember
  \/ Skip /\ Remember
  \/ StartProvider /\ Remember
  \/ Exhausted /\ Remember
  \/ FetchRejects /\ Remember
  \/ HttpError /\ Remember
  \/ HttpOkNotJson /\ Remember
  \/ HttpOk /\ Remember
  \/ TimerFires /\ Remember

SpecHistory == InitHistory /\ [][NextHistory]_vars

(***************************************************************************)
(* The caller keeps the object it handed to the constructor. The           *)
(* constructor stores the reference (this.apiKeys = apiKeys), so the       *)
(* caller's later writes to the object are writes to this.apiKeys. The     *)
(* caller's code runs while no call runs or the call is suspended.         *)
(***************************************************************************)
EditedProviders == {"cerebras", "gemini"}

AliasedKeyMaps ==
  {[p \in Provider |-> IF p \in S THEN JStr(FAKE_API_KEYS[p]) ELSE JStr("")]
     : S \in SUBSET EditedProviders}

InitAliased == InitWith(AliasedKeyMaps)

\* the caller sets, blanks or deletes an entry of its object
CallerEdits ==
  /\ pc \in {"idle", "fetch", "sleep", "resolved", "rejected"}
  /\ \E p \in EditedProviders : \E v \in {JStr(FAKE_API_KEYS[p]), JStr(""), JUndef} :
       /\ v # apiKeys[p]
       /\ apiKeys' = [apiKeys EXCEPT ![p] = v]
  /\ UNCHANGED <<frame, granted, parked, earlier, total>>

NextAliased ==
  \/ ChatCall(CascadeConversations) /\ Alone
  \/ Skip /\ Alone
  \/ StartProvider /\ Alone
  \/ Exhausted /\ Alone
  \/ FetchRejects /\ Alone
  \/ HttpError /\ Alone
  \/ HttpOkNotJson /\ Alone
  \/ HttpOk /\ Alone
  \/ TimerFires /\ Alone
  \/ CallerEdits

SpecAliased == InitAliased /\ [][NextAliased]_vars

(***************************************************************************)
(* One call followed to its end, its requests counted. The code between    *)
(* two awaits runs on; every fetch settles, with a response or an error;   *)
(* every backoff timer fires. Nothing obliges the caller to call again.    *)
(***************************************************************************)
BoundKeyMaps ==
  {[p \in Provider |-> IF p \in S THEN JStr(FAKE_API_KEYS[p]) ELSE JUndef]
     : S \in {Provider, Provider \ {"mistral"}}}

InitBound == InitWith(BoundKeyMaps)

\* a request going out adds one to the call's count; a new call starts at 0
Tally ==
  /\ total' = IF pc \in {"idle", "resolved", "rejected"} /\ pc' = "chat" THEN 0
              ELSE IF net' # NoRequest /\ net' # net THEN total + 1
              ELSE total
  /\ UNCHANGED <<granted, parked, earlier>>

\* chat() runs on from the loop head
Runs == (Skip \/ StartProvider \/ Exhausted) /\ Tally

\* the awaited fetch settles
Settles == (FetchRejects \/ HttpError \/ HttpOkNotJson \/ HttpOk) /\ Tally

\* the awaited timer fires
Fires == TimerFires /\ Tally

NextBound ==
  \/ ChatCall(CascadeConversations) /\ Tally
  \/ Skip /\ Tally
  \/ StartProvider /\ Tally
  \/ Exhausted /\ Tally
  \/ FetchRejects /\ Tally
  \/ HttpError /\ Tally
  \/ HttpOkNotJson /\ Tally
  \/ HttpOk /\ Tally
  \/ TimerFires /\ Tally

SpecBound ==
  InitBound /\ [][NextBound]_vars /\ WF_vars(Runs) /\ WF_vars(Settles) /\ WF_vars(Fires)

(***************************************************************************)
(* Vocabulary of the properties                                            *)
(***************************************************************************)
Credentialed(p) == apiKeys[p].t = "str" /\ apiKeys[p].s # ""

\* the provider of the latest iteration that issued a request
LastTried == CHOOSE p \in called : \A q \in called : Pos(q) <= Pos(p)

\* p is being tried: a request to it is in flight or its backoff timer is pending
InProgress(p) == pc \in {"fetch", "sleep"} /\ idx <= NumProviders /\ Current = p

\* p was called and its attempts are over
Finished(p) == p \in called /\ ~InProgress(p)

LastTriedIsGemini == called # {} /\ LastTried = "gemini"

\* a request reaches p's endpoint in this step
Receives(p) == net' # net /\ net'.to = p

\* status 429 or >= 500
RetryableStatus(s) == s = 429 \/ s >= 500

\* a non-2xx status that is neither 429 nor >= 500
NonRetryableStatus(s) == s >= 300 /\ s < 500 /\ s # 429

\* the property of the body that holds the dialect's list of answers
ListKey(p) == IF PROVIDER_CONFIG[p].type = "gemini-native" THEN "candidates" ELSE "choices"

\* body carries the choices/candidates list of p's dialect
HasList(p, body) ==
  /\ body.t = "obj"
  /\ ListKey(p) \in DOMAIN body.f
  /\ body.f[ListKey(p)].t = "arr"

\* the latest provider's attempts are over after n answers, all of them retryable
ExhaustedRetryably(n) ==
  /\ called # {}
  /\ Finished(LastTried)
  /\ Len(answers) = n
  /\ \A i \in 1..n : RetryableStatus(answers[i])

(***************************************************************************)
(* C1  First success wins: once a credentialed provider answers with a     *)
(* success of its dialect, chat() has resolved with that answer's text and *)
(* that provider's name, nothing is in flight or pending, and no provider  *)
(* later in the cascade order has received a request.                      *)
(***************************************************************************)
C1_FirstSuccessWins ==
  \A p \in succeeded :
    /\ pc = "resolved"
    /\ result.provider = p
    /\ result.content.t = "str"
    /\ HasDialectShape(p, response)
    /\ response \in {OpenAIReply(result.content.s), GeminiReply(result.content.s)}
    /\ thrown = NoError
    /\ net = NoRequest
    /\ timer = 0
    /\ \A q \in Provider : Pos(q) > Pos(p) => q \notin called

\* deepseek answers "ok" after cerebras and gemini were tried, with a
\* credentialed provider still behind it
C1_Witness ==
  /\ pc = "resolved"
  /\ succeeded = {"deepseek"}
  /\ called = {"cerebras", "gemini", "deepseek"}
  /\ Credentialed("openrouter")
  /\ result = [content |-> JStr("ok"), provider |-> "deepseek"]

(***************************************************************************)
(* C2  Strict cascade ordering: a provider has received a request only if  *)
(* every credentialed provider before it in the order was called and its   *)
(* attempts ended without a success; a provider whose attempts are over    *)
(* never receives another request; the provider named in the result holds  *)
(* a key, answered 2xx, and no credentialed provider before it succeeded.  *)
(***************************************************************************)
C2_OrderInv ==
  /\ \A q \in called : \A i \in 1..(Pos(q) - 1) :
       LET p == PROVIDER_CASCADE_ORDER[i] IN
       Credentialed(p) => /\ p \in called
                          /\ Finished(p)
                          /\ p \notin succeeded
                          /\ result.provider # p
  /\ pc = "resolved" =>
       /\ Credentialed(result.provider)
       /\ result.provider = LastTried
       /\ IsOk(answers[Len(answers)])
       /\ \A i \in 1..(Pos(result.provider) - 1) :
            Credentialed(PROVIDER_CASCADE_ORDER[i]) => PROVIDER_CASCADE_ORDER[i] \notin succeeded

C2_NeverCalledAgain == \A p \in Provider : Finished(p) => ~Receives(p)

C2_StrictCascadeOrdering == []C2_OrderInv /\ [][C2_NeverCalledAgain]_vars

\* the test-suite's fall-through: cerebras and gemini answer 500 throughout,
\* deepseek answers
C2_Witness ==
  /\ pc = "resolved"
  /\ result.provider = "deepseek"
  /\ called = {"cerebras", "gemini", "deepseek"}
  /\ skipped = {}
  /\ answers = <<200>>

(***************************************************************************)
(* C3  Total failure: a settled chat() has rejected exactly when every     *)
(* provider was skipped for lacking a key or was called without its answer *)
(* being returned; with all seven skipped no request was sent; the error   *)
(* thrown is the fixed aggregate error and never a provider's error.       *)
(***************************************************************************)
C3_Abandoned(p) ==
  \/ p \in skipped /\ ~Credentialed(p)
  \/ Finished(p) /\ result.provider # p /\ p \notin succeeded

C3_TotalFailure ==
  /\ thrown \in {NoError, AllFailedError}
  /\ pc = "rejected" <=> thrown = AllFailedError
  /\ pc \in {"resolved", "rejected"} =>
       (pc = "rejected" <=> \A p \in Provider : C3_Abandoned(p))
  /\ (pc = "chat" /\ \A p \in Provider : C3_Abandoned(p)) => idx > NumProviders
  /\ pc = "rejected" => result = NoResult
  /\ (pc = "rejected" /\ skipped = Provider) => (called = {} /\ sent = NoRequest)

\* all seven providers were called and failed, the last with a status error
C3_Witness ==
  /\ pc = "rejected"
  /\ called = Provider
  /\ lastError = ApiError("groq", 500)
  /\ thrown = AllFailedError

(***************************************************************************)
(* C4  Retry stays on the same provider: k retryable answers (k = 1, 2)    *)
(* followed by a success make chat() resolve via that provider, whose      *)
(* endpoint received exactly k + 1 requests.                               *)
(***************************************************************************)
C4_RetryStaysOnProvider ==
  \A k \in {1, 2} :
    ( /\ called # {}
      /\ Len(answers) = k + 1
      /\ \A i \in 1..k : RetryableStatus(answers[i])
      /\ IsOk(answers[k + 1])
      /\ HasDialectShape(LastTried, response) )
    => /\ pc = "resolved"
       /\ result.provider = LastTried
       /\ LastTried \in succeeded
       /\ reqs = k + 1
       /\ sleeps = k

\* cerebras answers 429, then 500, then succeeds
C4_Witness ==
  /\ pc = "resolved"
  /\ answers = <<429, 500, 200>>
  /\ result = [content |-> JStr("ok"), provider |-> "cerebras"]
  /\ reqs = 3

(***************************************************************************)
(* C5  Fail fast: a provider whose first answer is a non-retryable status  *)
(* received exactly one request, no backoff was awaited for it, and the    *)
(* loop went on to the next provider; chat() rejects only once the order   *)
(* is exhausted, with the aggregate error.                                 *)
(***************************************************************************)
C5_FailFast ==
  (Len(answers) >= 1 /\ NonRetryableStatus(answers[1])) =>
    /\ Len(answers) = 1
    /\ reqs = 1
    /\ sleeps = 0
    /\ timer = 0
    /\ net = NoRequest
    /\ Finished(LastTried)
    /\ idx = Pos(LastTried) + 1
    /\ pc \in {"chat", "rejected"}
    /\ pc = "rejected" => (idx > NumProviders /\ thrown = AllFailedError)
    /\ thrown # lastError

\* the test-suite's case: cerebras answers 401 and the loop stands at gemini
C5_Witness ==
  /\ pc = "chat"
  /\ answers = <<401>>
  /\ lastError = ApiError("cerebras", 401)
  /\ idx = 2
  /\ Credentialed("gemini")

(***************************************************************************)
(* C6  Skip: a provider whose key is empty or missing has never received a *)
(* request, no failure line names it, and the loop moves past it: it is    *)
(* recorded as skipped exactly when the loop stands behind it.             *)
(***************************************************************************)
C6_SkipWithoutKey ==
  \A p \in Provider :
    ~Credentialed(p) =>
      /\ p \notin called
      /\ net.to # p
      /\ sent.to # p
      /\ \A i \in 1..Len(log) : log[i].provider = p => log[i].level = "warn" /\ log[i].event = "skipping"
      /\ lastError.provider # p
      /\ pc # "idle" => (p \in skipped <=> idx > Pos(p))

\* the test-suite's case with the key missing: cerebras is skipped, gemini is called
C6_Witness ==
  /\ apiKeys["cerebras"] = JUndef
  /\ "cerebras" \in skipped
  /\ pc = "fetch"
  /\ net.to = "gemini"

(***************************************************************************)
(* C7  Attempt ceiling: a provider never receives more than 3 requests in  *)
(* a call (a first request goes only to a provider not called before), and *)
(* a provider that answers every request with a retryable status has       *)
(* received exactly 3 when it is abandoned.                                *)
(***************************************************************************)
C7_CeilingInv ==
  /\ reqs <= 3
  /\ Len(answers) <= reqs
  /\ attempt < 3 \/ pc \notin {"fetch", "sleep"}
  /\ \A n \in 1..4 : ExhaustedRetryably(n) => (n = 3 /\ reqs = 3)

C7_FirstRequestOnce ==
  \A p \in Provider : (Receives(p) /\ reqs' = 1) => p \notin called

C7_AttemptCeiling == []C7_CeilingInv /\ [][C7_FirstRequestOnce]_vars

\* cerebras answered 500, 429, 503 and is abandoned
C7_Witness ==
  /\ pc = "chat"
  /\ answers = <<500, 429, 503>>
  /\ reqs = 3
  /\ LastTried = "cerebras"
  /\ idx = 2

(***************************************************************************)
(* C8  Native-dialect round trip: the body sent to the gemini-native       *)
(* provider lists one entry per message, in order, each carrying the       *)
(* message's text as its single part and the message's role with           *)
(* 'assistant' renamed 'model'; the text of the first part of the first    *)
(* candidate of the answer is the content chat() resolves with.            *)
(***************************************************************************)
C8_NativeRoundTrip ==
  /\ sent.to = "gemini" =>
       /\ sent.body.dialect = "gemini-native"
       /\ Len(sent.body.contents) = Len(messages)
       /\ \A i \in 1..Len(messages) :
            /\ sent.body.contents[i].parts = <<[text |-> messages[i].content]>>
            /\ sent.body.contents[i].role =
                 (IF messages[i].role = "assistant" THEN "model" ELSE messages[i].role)
  /\ net.to = "gemini" => net = sent
  /\ \A t \in ReplyText :
       (LastTriedIsGemini /\ response = GeminiReply(t)) =>
          /\ pc = "resolved"
          /\ result = [content |-> JStr(t), provider |-> "gemini"]

\* a two-message conversation ending with an assistant turn went out and the
\* answer's text came back
C8_Witness ==
  /\ pc = "resolved"
  /\ Len(messages) = 2
  /\ messages[1].role = "system"
  /\ messages[2] = [role |-> "assistant", content |-> "hi"]
  /\ sent.body.contents[2].role = "model"
  /\ result = [content |-> JStr("ok"), provider |-> "gemini"]

(***************************************************************************)
(* C9  Backoff only between attempts: a backoff delay is awaited only when *)
(* an attempt remains, so a provider that fails retryably on all 3         *)
(* attempts has incurred exactly 2 delays when the cascade moves on.       *)
(***************************************************************************)
C9_BackoffOnlyBetweenAttempts ==
  /\ pc = "sleep" => attempt + 1 < 3
  /\ ExhaustedRetryably(3) => sleeps = 2

(***************************************************************************)
(* C10  Every 2xx outcome ends the cascade or is a recorded failure: once  *)
(* the retry policy has returned a parsed body for a provider, whatever    *)
(* the body, chat() has resolved naming that provider or has logged a      *)
(* parse failure for it.                                                   *)
(***************************************************************************)
C10_NoSilentFallThrough ==
  response # JUndef =>
    \/ pc = "resolved" /\ result.provider = LastTried
    \/ \E i \in 1..Len(log) :
         log[i] = LogLine("error", "failed to parse", LastTried)

(***************************************************************************)
(* C11  Failures never abort the cascade: whatever the class of a          *)
(* provider's failure (retryable status on all 3 attempts, non-retryable   *)
(* status, network error, unparsable 2xx body, schema parse error), the    *)
(* call has not rejected at that point but moved to the next position; it  *)
(* rejects only at the end of the list, every provider skipped or called.  *)
(***************************************************************************)
C11_FailureClass ==
  \/ ExhaustedRetryably(3)
  \/ lastError.kind = "api" /\ NonRetryableStatus(lastError.status)
  \/ lastError.kind = "network"
  \/ lastError.kind = "json"
  \/ lastError.kind = "parse"

C11_Inv ==
  /\ (called # {} /\ Finished(LastTried) /\ C11_FailureClass) =>
       /\ pc \in {"chat", "rejected"}
       /\ idx = Pos(LastTried) + 1
       /\ result = NoResult
       /\ pc = "rejected" => LastTried = PROVIDER_CASCADE_ORDER[NumProviders]
  /\ pc = "rejected" =>
       /\ idx > NumProviders
       /\ thrown = AllFailedError
       /\ \A p \in Provider : p \in skipped \cup called

\* the call rejects from the end of the loop only
C11_RejectsAtEnd == pc' = "rejected" => (pc = "chat" /\ idx > NumProviders)

C11_FailuresNeverAbort == []C11_Inv /\ [][C11_RejectsAtEnd]_vars

\* cerebras answered 429, then its retry met a network error; the loop stands
\* at gemini and nothing was thrown
C11_Witness ==
  /\ pc = "chat"
  /\ idx = 2
  /\ answers = <<429, 0>>
  /\ lastError = NetworkError
  /\ thrown = NoError
  /\ Credentialed("gemini")

(***************************************************************************)
(* C12  Retry classification: an attempt's failure is followed by another  *)
(* attempt on the same provider exactly when it carried status 429 or a    *)
(* status >= 500 and fewer than 3 attempts had been made; any other        *)
(* non-2xx status, a network failure and invalid JSON in a 2xx body end    *)
(* the provider's attempts at once.                                        *)
(***************************************************************************)
C12_Inv ==
  \* an answer that was followed by another attempt was retryable, and not the third
  /\ \A i \in 1..Len(answers) :
       reqs > i => (RetryableStatus(answers[i]) /\ i < 3)
  \* the attempts that ended on a retryable answer are 3
  /\ (called # {} /\ Finished(LastTried) /\ answers # << >>
        /\ RetryableStatus(answers[Len(answers)])) => Len(answers) = 3
  \* a backoff is awaited after a retryable answer only
  /\ pc = "sleep" => (lastError.hasStatus /\ RetryableStatus(lastError.status)
                         /\ answers[Len(answers)] = lastError.status)
  \* every other failure ends the attempts: no delay, no request, next position
  /\ (\/ lastError.kind \in {"network", "json"}
      \/ lastError.kind = "api" /\ ~RetryableStatus(lastError.status)) =>
       /\ pc \in {"chat", "rejected"}
       /\ timer = 0 /\ net = NoRequest
       /\ reqs = Len(answers)
       /\ sleeps = reqs - 1
       /\ idx = Pos(LastTried) + 1

\* what follows a pending backoff: the retry, on the same provider, when fewer
\* than 3 attempts were made, and no request otherwise
C12_AfterBackoff ==
  pc = "sleep" =>
    IF reqs < 3
    THEN pc' = "fetch" /\ idx' = idx /\ Receives(Current) /\ reqs' = reqs + 1
    ELSE pc' = "chat" /\ net' = NoRequest /\ reqs' = reqs

C12_RetryClassification == []C12_Inv /\ [][C12_AfterBackoff]_vars

\* gemini answered 503, was retried, and answered 200 with a body that is not
\* JSON: the loop went on to deepseek without a second delay
C12_Witness ==
  /\ pc = "chat"
  /\ idx = 3
  /\ answers = <<503, 200>>
  /\ LastTried = "gemini"
  /\ lastError = JsonError
  /\ sleeps = 1

(***************************************************************************)
(* C13  Malformed response is a non-retryable provider failure: once a     *)
(* provider has answered 2xx with a body that lacks the choices/candidates *)
(* list of its dialect, it is failed with the parsing error naming it, no  *)
(* request or delay of it is pending or follows, and the loop stands at    *)
(* the next position.                                                      *)
(***************************************************************************)
C13_Failed ==
  /\ lastError = ParseError(LastTried)
  /\ pc \in {"chat", "rejected"}
  /\ idx = Pos(LastTried) + 1
  /\ net = NoRequest /\ timer = 0
  /\ reqs = Len(answers)
  /\ result = NoResult

C13_MalformedIsProviderFailure ==
  (called # {} /\ response # JUndef /\ ~HasList(LastTried, response)) => C13_Failed

\* the same, for the bodies that pass the `if (response)` test of chat()
C13_TruthyMalformed ==
  (called # {} /\ response # JUndef /\ ~HasList(LastTried, response) /\ Truthy(response))
    => C13_Failed

(***************************************************************************)
(* C14  Empty but well-formed response is a success: once a provider has   *)
(* answered 2xx with a body that carries its dialect's list and whose      *)
(* first candidate has no text or an empty one, chat() has resolved with   *)
(* the empty string and that provider; the provider is not failed and the  *)
(* loop has not moved on.                                                  *)
(***************************************************************************)
\* the body is the dialect's full reply with a text that is not empty
C14_HasText(p, body) == HasDialectShape(p, body) /\ parseResponse(p, body).v # JStr("")

C14_EmptySuccess ==
  /\ pc = "resolved"
  /\ result = [content |-> JStr(""), provider |-> LastTried]
  /\ \A i \in 1..Len(log) : log[i].level # "error"
  /\ idx = Pos(LastTried)

C14_EmptyIsSuccess ==
  (called # {} /\ response # JUndef /\ HasList(LastTried, response)
     /\ ~C14_HasText(LastTried, response)) => C14_EmptySuccess

\* the same, leaving out the native answer whose first candidate has a content
\* without parts
C14_EmptyWithParts ==
  (called # {} /\ response # JUndef /\ HasList(LastTried, response)
     /\ ~C14_HasText(LastTried, response)
     /\ response # JObj([candidates |-> JArr(<<JObj([content |-> JObj(<< >>)])>>)]))
    => C14_EmptySuccess

(***************************************************************************)
(* C15  Backoff schedule: the delay awaited after the failed attempt with  *)
(* index k, counted from 0 for each provider, lies in                      *)
(* [2000 * 2^k, 2000 * 2^k + 1000) ms; hence it exceeds every delay the    *)
(* previous index can draw, and the first request to a provider is always  *)
(* made at index 0.                                                        *)
(***************************************************************************)
C15_Inv ==
  /\ timer > 0 <=> pc = "sleep"
  /\ pc = "sleep" =>
       \* the index of the failed attempt is the number of answers before it
       /\ attempt = Len(answers) - 1
       /\ timer >= 2000 * Pow2(attempt)
       /\ timer < 2000 * Pow2(attempt) + 1000
       \* above the range of the previous index, whatever was drawn there
       /\ attempt >= 1 => timer >= 2000 * Pow2(attempt - 1) + 1000
  /\ pc = "fetch" => attempt = reqs - 1
  /\ \A k \in 0..1 : \A j1, j2 \in JitterSamples :
       BackoffDelay(k, j1) < BackoffDelay(k + 1, j2)

\* a provider that was not called before starts at index 0
C15_IndexRestarts ==
  \A p \in Provider : (Receives(p) /\ p \notin called) => attempt' = 0

C15_BackoffSchedule == []C15_Inv /\ [][C15_IndexRestarts]_vars

\* gemini, tried after cerebras, failed its second attempt (index 1) and the
\* largest jitter was drawn
C15_Witness ==
  /\ pc = "sleep"
  /\ Current = "gemini"
  /\ "cerebras" \in called
  /\ attempt = 1
  /\ timer = 4999
  /\ answers = <<500, 429>>

(***************************************************************************)
(* C16  Concurrent invocations do not interfere: with two calls of one     *)
(* instance interleaved at their awaits, every step either advances the    *)
(* running call and leaves the other call's locals as they were, or passes *)
(* control and leaves both as they were; and each call's attempt counter,  *)
(* cascade position and result are those its own answers determine, as     *)
(* when it runs alone.                                                     *)
(***************************************************************************)
\* f's counter, position and result, told from f's own requests and answers
C16_OwnHistory(f) ==
  LET n == Len(f.answers)
      busy == f.pc \in {"fetch", "sleep", "resolved"}
      cur == PROVIDER_CASCADE_ORDER[f.idx]
  IN
  /\ f.pc = "fetch" =>
       (f.attempt = n /\ f.reqs = n + 1 /\ f.net = Request(cur, f.messages, f.apiKey.s))
  /\ f.pc = "sleep" =>
       (f.attempt = n - 1 /\ f.reqs = n /\ f.timer >= 2000 * Pow2(n - 1)
          /\ f.timer < 2000 * Pow2(n - 1) + 1000)
  /\ f.reqs <= 3
  /\ f.pc # "idle" =>
       /\ f.skipped = {p \in Provider : Pos(p) < f.idx /\ ~Credentialed(p)}
       /\ f.called = {p \in Provider : Credentialed(p) /\
                        (Pos(p) < f.idx \/ (busy /\ Pos(p) = f.idx))}
  /\ IF f.pc = "resolved"
     THEN /\ IsOk(f.answers[n])
          /\ f.result = [content |-> parseResponse(cur, f.response).v, provider |-> cur]
     ELSE f.result = NoResult
  /\ f.pc = "rejected" <=> f.thrown = AllFailedError
  /\ f.pc = "rejected" => f.idx = NumProviders + 1

C16_Inv == C16_OwnHistory(Frame) /\ C16_OwnHistory(parked)

C16_Step ==
  \/ parked' = parked
  \/ parked' = Frame /\ Frame' = parked

C16_NoInterference == []C16_Inv /\ [][C16_Step]_vars

\* one call waits for cerebras' second backoff to end while the other, having
\* left cerebras behind on a 401, resolved via gemini
C16_Witness ==
  /\ parked.pc = "sleep"
  /\ parked.idx = 1
  /\ parked.attempt = 1
  /\ pc = "resolved"
  /\ called = {"cerebras", "gemini"}
  /\ result = [content |-> JStr("ok"), provider |-> "gemini"]

(***************************************************************************)
(* C17  One request at a time: in a single call, the requests made to the  *)
(* current provider exceed its answers by at most one, and by one exactly  *)
(* while the call awaits the fetch; no request is outstanding while a      *)
(* backoff timer is pending; a request goes out, and the loop moves on,    *)
(* only when no request is outstanding, so two providers never have        *)
(* requests outstanding at once.                                           *)
(***************************************************************************)
\* requests made to the current provider that it has not answered yet
C17_Outstanding == reqs - Len(answers)

C17_Inv ==
  /\ C17_Outstanding \in {0, 1}
  /\ C17_Outstanding = 1 <=> pc = "fetch"
  /\ net # NoRequest <=> pc = "fetch"
  /\ pc = "fetch" => (net.to = Current /\ net = sent /\ Current \in called)
  /\ timer > 0 => (C17_Outstanding = 0 /\ net = NoRequest)

C17_Step ==
  /\ (\E p \in Provider : Receives(p)) =>
       (C17_Outstanding = 0 /\ net = NoRequest /\ timer' = 0)
  /\ idx' # idx => (C17_Outstanding' = 0 /\ net' = NoRequest)

C17_OneRequestAtATime == []C17_Inv /\ [][C17_Step]_vars

\* gemini's retry is in flight: cerebras answered and was left, gemini
\* answered 500 and its timer has fired
C17_Witness ==
  /\ pc = "fetch"
  /\ net.to = "gemini"
  /\ "cerebras" \in called
  /\ reqs = 2
  /\ answers = <<500>>
  /\ timer = 0

(***************************************************************************)
(* C18  No state carried across calls: whatever the previous call went     *)
(* through, a call starts at position 1 with every count at 0 and nothing  *)
(* called or skipped; in it every credentialed provider before the loop    *)
(* position was called, those that failed in an earlier call included; a   *)
(* pending backoff after fewer than 3 requests is followed by the retry,   *)
(* and a provider that exhausted its retries earlier is again abandoned    *)
(* after 3 retryable answers, not fewer.                                   *)
(***************************************************************************)
C18_Inv ==
  /\ pc # "idle" =>
       \A p \in Provider :
         /\ (Pos(p) < idx /\ Credentialed(p)) => p \in called
         /\ (Pos(p) < idx /\ ~Credentialed(p)) => p \in skipped
  \* no provider is struck off for having failed before
  /\ \A p \in earlier.failed \cup earlier.exhausted :
       /\ p \notin skipped
       /\ (pc # "idle" /\ Pos(p) < idx) => p \in called
  /\ pc = "fetch" => attempt = reqs - 1
  /\ \A n \in 1..4 : ExhaustedRetryably(n) => n = 3

C18_Step ==
  /\ (pc \in {"idle", "resolved", "rejected"} /\ pc' = "chat") =>
       /\ idx' = 1 /\ attempt' = 0 /\ reqs' = 0 /\ sleeps' = 0
       /\ called' = {} /\ skipped' = {}
       /\ lastError' = NoError /\ result' = NoResult /\ thrown' = NoError
       /\ apiKeys' = apiKeys
  /\ \A p \in Provider : (Receives(p) /\ p \notin called) => (attempt' = 0 /\ reqs' = 1)
  /\ (pc = "sleep" /\ reqs < 3) => (pc' = "fetch" /\ Receives(Current))

C18_NoStateAcrossCalls == []C18_Inv /\ [][C18_Step]_vars

\* gemini was abandoned after its last retry in an earlier call; in this call
\* cerebras was skipped again and gemini's third request is in flight
C18_Witness ==
  /\ "gemini" \in earlier.exhausted
  /\ skipped = {"cerebras"}
  /\ pc = "fetch"
  /\ net.to = "gemini"
  /\ reqs = 3

(***************************************************************************)
(* C19  Credential map fixed at construction: the providers a call skips   *)
(* and calls, and the key each request carries, are those of the map as it *)
(* was when the constructor ran, whatever the caller writes to its object  *)
(* afterwards; and no step of chat() writes to the map.                    *)
(***************************************************************************)
\* a step of a call (the caller's writes leave the call's locals alone)
C19_ChatStep == Frame' # Frame

C19_AsConstructed ==
  /\ \A p \in called : Truthy(granted[p])
  /\ \A p \in skipped : ~Truthy(granted[p])
  /\ sent # NoRequest =>
       (IF sent.to = "gemini" THEN sent.queryKey ELSE sent.bearer) = granted[sent.to].s

C19_ChatNeverWrites == [][C19_ChatStep => apiKeys' = apiKeys]_vars

C19_CredentialMapFixed == []C19_AsConstructed /\ C19_ChatNeverWrites

(***************************************************************************)
(* C20  Termination and request bound: if every fetch settles and every    *)
(* backoff timer fires, a call that was started resolves or rejects; the   *)
(* provider being tried has received at most 3 requests and no provider is *)
(* started twice, so the call has sent at most 3 requests per provider it  *)
(* called and at most 21 in all.                                           *)
(***************************************************************************)
C20_Bound ==
  /\ reqs <= 3
  /\ total <= 3 * Cardinality(called)
  /\ total <= 21
  /\ \A p \in called : Credentialed(p)

C20_StartedOnce == \A p \in Provider : (Receives(p) /\ reqs' = 1) => p \notin called

C20_Settles == (pc = "chat") ~> (pc \in {"resolved", "rejected"})

C20_TerminationAndBound == C20_Settles /\ []C20_Bound /\ [][C20_StartedOnce]_vars

\* all seven providers answered every request with a retryable status
C20_Witness ==
  /\ pc = "rejected"
  /\ called = Provider
  /\ total = 21

(***************************************************************************)
(* C21  No cross-provider credential leakage: every request goes to the    *)
(* endpoint of the provider p it is meant for and carries p's own entry of *)
(* the credential map, as the bearer token and with no key in the URL for  *)
(* an openai-compatible provider, as the key query parameter and with no   *)
(* Authorization header for the gemini-native one; it carries no other     *)
(* provider's credential anywhere.                                         *)
(***************************************************************************)
C21_Carries(r) ==
  r # NoRequest =>
    LET p == r.to IN
    /\ p \in Provider
    /\ Credentialed(p)
    /\ r.baseURL = PROVIDER_CONFIG[p].baseURL
    /\ r.endpoint = PROVIDER_CONFIG[p].endpoint
    /\ IF PROVIDER_CONFIG[p].type = "gemini-native"
       THEN r.queryKey = apiKeys[p].s /\ r.bearer = ""
       ELSE r.bearer = apiKeys[p].s /\ r.queryKey = ""
    /\ \A q \in Provider \ {p} :
         Credentialed(q) => apiKeys[q].s \notin {r.queryKey, r.bearer}

\* the request in flight and the request the network received last
C21_NoCredentialLeak == C21_Carries(net) /\ C21_Carries(sent)

\* cerebras and gemini failed; deepseek's retry is in flight with deepseek's
\* key as bearer while other providers hold keys too
C21_Witness ==
  /\ pc = "fetch"
  /\ called = {"cerebras", "gemini", "deepseek"}
  /\ answers = <<429>>
  /\ net.to = "deepseek"
  /\ net.bearer = "fake-deepseek-key"
  /\ net.queryKey = ""
  /\ Credentialed("groq")

\* with the caller writing to its object meanwhile: the request in flight
\* carries the entry chat() read for its provider, and no other provider's
C21_OwnKeyAsRead ==
  net # NoRequest =>
    LET key == IF PROVIDER_CONFIG[net.to].type = "gemini-native" THEN net.queryKey ELSE net.bearer IN
    /\ key = apiKey.s
    /\ {net.queryKey, net.bearer} = {key, ""}
    /\ \A q \in Provider \ {net.to} : Credentialed(q) => apiKeys[q].s # key
====
